---- MODULE Spec2Model ----
(***************************************************************************)
(* A model of c-vec (vec.h): a header-prefixed growable array addressed    *)
(* through one element pointer.  One vec_t(T) handle is modelled together  *)
(* with the heap block it points to, the process-wide errno, and the       *)
(* process status (VEC_PANIC exits, VEC_ASSERT aborts).  Every macro of    *)
(* vec.h is one atomic action: the library is single-threaded and every    *)
(* operation runs to completion.                                           *)
(***************************************************************************)
EXTENDS Integers, Sequences, FiniteSets, TLC

\* ------------------------------------------------------------------ bounds
\* Largest capacity the model lets a block reach (reserve argument, doubling).
MaxCap == 4
\* Largest length the model lets the array reach.
MaxLen == 3
\* Element values are 1..MaxVal.
MaxVal == 2
\* Longest array the removal specification SpecRemove starts from.
RemLen == 4
\* Most elements appended over one lifetime in the specification SpecLifetime.
MaxPush == 4

\* --------------------------------------------------------------- constants
\* The null pointer: vec_init stores it, vec__has_header tests against it.
NULL == 0
\* errno value stored by the fail-soft failure blocks.
ENOMEM == 12
\* errno value of a process in which no call has failed.
ENONE == 0
\* Content of a slot that malloc/realloc returned and nobody wrote yet.
Indet == -1

Values == 1..MaxVal
\* Where the allocator can place the block.  Two places tell a reallocation that
\* leaves the block where it is from one that moves it.
Addrs == {1, 2}
\* What one allocator call returns: NULL on failure, else the address of the block.
AllocResults == {NULL} \cup Addrs

VARIABLES
  vec,        \* the handle *(vec): NULL or the address of the element buffer
  len,        \* header field len of the block at vec
  cap,        \* header field cap of the block at vec
  buf,        \* the element slots of the block at vec, slot i is buf[i+1]
  heap,       \* "none": no block, "live": block at vec allocated, "freed": block at vec released
  errno,      \* the process-wide errno
  status,     \* "running", "panicked" (VEC_PANIC ran), "asserted" (VEC_ASSERT failed), "crashed"
  destroyed,  \* the slots passed to deinit_fn by the last call, in call order
  ub,         \* the undefined behaviour the last call executed, "none" if none
  last,       \* the last call: its name, argument, allocator outcome and returned reference
  visited,    \* the elements the last call's traversal passed to its body, in order
  lifetime,   \* while tracked (on): how many elements were appended since vec_init
              \* (made) and the values passed to deinit_fn since then, in call order (gone)
  appended    \* the values of the appends that grew the array, while the calls made
              \* since it was last empty are such appends only (pure)

vars == <<vec, len, cap, buf, heap, errno, status, destroyed, ub, last, visited, lifetime, appended>>
mem == <<vec, len, cap, buf, heap>>

\* ----------------------------------------------------------------- helpers
\* #define vec__has_header(vec) (*(vec) != NULL)
vec__has_header == vec # NULL

\* #define vec_len(vec) (vec__has_header(vec) ? vec__get_header(vec)->len : 0)
vec_len == IF vec__has_header THEN len ELSE 0

\* #define vec_cap(vec) (vec__has_header(vec) ? vec__get_header(vec)->cap : 0)
vec_cap == IF vec__has_header THEN cap ELSE 0

\* The record of a call, kept for the properties below.
Call(op, arg, alloc, ret) == [op |-> op, arg |-> arg, alloc |-> alloc, ret |-> ret]

\* n slots nobody wrote yet.
Fresh(n) == [i \in 1..n |-> Indet]

\* VEC_MALLOC(sizeof(vec__header_t) + sizeof(T) * n): a new block of n slots at
\* address r, or NULL (r = NULL) when the allocator fails.
VEC_MALLOC(n, r) ==
  IF r # NULL THEN [ptr |-> r, buf |-> Fresh(n)] ELSE [ptr |-> NULL, buf |-> <<>>]

\* VEC_REALLOC(header, sizeof(vec__header_t) + sizeof(T) * n): on success the block
\* may move to r, keeps the old bytes (header fields and slots) and gains slots
\* nobody wrote; on failure NULL, and the old block is untouched.
VEC_REALLOC(old, n, r) ==
  IF r # NULL
  THEN [ptr |-> r, buf |-> [i \in 1..n |-> IF i <= Len(old) THEN old[i] ELSE Indet]]
  ELSE [ptr |-> NULL, buf |-> old]

\* vec__grow_or_fail with the slip of not storing the doubled capacity in the header.
vec__grow_or_fail_stale_cap(r) ==
  IF ~vec__has_header
  THEN LET m == VEC_MALLOC(1, r) IN
       IF m.ptr # NULL
       THEN [vec |-> m.ptr, cap |-> 1, len |-> 1, buf |-> m.buf,
             alloc |-> "ok", failed |-> FALSE]
       ELSE [vec |-> vec, cap |-> cap, len |-> len, buf |-> buf,
             alloc |-> "fail", failed |-> TRUE]
  ELSE IF len < cap
       THEN [vec |-> vec, cap |-> cap, len |-> len + 1, buf |-> buf,
             alloc |-> "none", failed |-> FALSE]
       ELSE LET m == VEC_REALLOC(buf, cap * 2, r) IN
            IF m.ptr # NULL
            THEN [vec |-> m.ptr, cap |-> cap, len |-> len + 1, buf |-> m.buf,
                  alloc |-> "ok", failed |-> FALSE]
            ELSE [vec |-> vec, cap |-> cap, len |-> len, buf |-> buf,
                  alloc |-> "fail", failed |-> TRUE]

\* vec__grow_or_fail growing a full array by one slot instead of doubling it.
vec__grow_or_fail_by_one(r) ==
  IF ~vec__has_header
  THEN LET m == VEC_MALLOC(1, r) IN
       IF m.ptr # NULL
       THEN [vec |-> m.ptr, cap |-> 1, len |-> 1, buf |-> m.buf,
             alloc |-> "ok", failed |-> FALSE]
       ELSE [vec |-> vec, cap |-> cap, len |-> len, buf |-> buf,
             alloc |-> "fail", failed |-> TRUE]
  ELSE IF len < cap
       THEN [vec |-> vec, cap |-> cap, len |-> len + 1, buf |-> buf,
             alloc |-> "none", failed |-> FALSE]
       ELSE LET vec_new_cap == cap + 1
                m == VEC_REALLOC(buf, vec_new_cap, r) IN
            IF m.ptr # NULL
            THEN [vec |-> m.ptr, cap |-> vec_new_cap, len |-> len + 1, buf |-> m.buf,
                  alloc |-> "ok", failed |-> FALSE]
            ELSE [vec |-> vec, cap |-> cap, len |-> len, buf |-> buf,
                  alloc |-> "fail", failed |-> TRUE]

\* vec__grow_or_fail storing realloc's answer in the handle before testing it, so
\* that a failed reallocation loses the block.
vec__grow_or_fail_lost_block(r) ==
  IF ~vec__has_header
  THEN LET m == VEC_MALLOC(1, r) IN
       IF m.ptr # NULL
       THEN [vec |-> m.ptr, cap |-> 1, len |-> 1, buf |-> m.buf,
             alloc |-> "ok", failed |-> FALSE]
       ELSE [vec |-> vec, cap |-> cap, len |-> len, buf |-> buf,
             alloc |-> "fail", failed |-> TRUE]
  ELSE IF len < cap
       THEN [vec |-> vec, cap |-> cap, len |-> len + 1, buf |-> buf,
             alloc |-> "none", failed |-> FALSE]
       ELSE LET vec_new_cap == cap * 2
                m == VEC_REALLOC(buf, vec_new_cap, r) IN
            IF m.ptr # NULL
            THEN [vec |-> m.ptr, cap |-> vec_new_cap, len |-> len + 1, buf |-> m.buf,
                  alloc |-> "ok", failed |-> FALSE]
            ELSE [vec |-> NULL, cap |-> cap, len |-> len, buf |-> buf,
                  alloc |-> "fail", failed |-> TRUE]

\* vec__grow_or_fail up to its failure block: the header and buffer after the
\* growth, whether the allocator was asked, and whether the failure block runs.
vec__grow_or_fail(r) ==
  IF ~vec__has_header
  THEN LET m == VEC_MALLOC(1, r) IN
       IF m.ptr # NULL
       THEN [vec |-> m.ptr, cap |-> 1, len |-> 1, buf |-> m.buf,
             alloc |-> "ok", failed |-> FALSE]
       ELSE [vec |-> vec, cap |-> cap, len |-> len, buf |-> buf,
             alloc |-> "fail", failed |-> TRUE]
  ELSE IF len < cap
       THEN [vec |-> vec, cap |-> cap, len |-> len + 1, buf |-> buf,
             alloc |-> "none", failed |-> FALSE]
       ELSE LET vec_new_cap == cap * 2
                m == VEC_REALLOC(buf, vec_new_cap, r) IN
            IF m.ptr # NULL
            THEN [vec |-> m.ptr, cap |-> vec_new_cap, len |-> len + 1, buf |-> m.buf,
                  alloc |-> "ok", failed |-> FALSE]
            ELSE [vec |-> vec, cap |-> cap, len |-> len, buf |-> buf,
                  alloc |-> "fail", failed |-> TRUE]

\* vec__reserve_or_fail growing an allocated array to at least twice its capacity.
vec__reserve_or_fail_rounded(capacity, r) ==
  LET vec_capacity == capacity IN
  IF vec_capacity = 0
  THEN [vec |-> vec, cap |-> cap, len |-> len, buf |-> buf,
        alloc |-> "none", failed |-> FALSE]
  ELSE IF ~vec__has_header
  THEN LET m == VEC_MALLOC(vec_capacity, r) IN
       IF m.ptr # NULL
       THEN [vec |-> m.ptr, cap |-> vec_capacity, len |-> 0, buf |-> m.buf,
             alloc |-> "ok", failed |-> FALSE]
       ELSE [vec |-> vec, cap |-> cap, len |-> len, buf |-> buf,
             alloc |-> "fail", failed |-> TRUE]
  ELSE IF vec_capacity > cap
       THEN LET vec_new_cap == IF vec_capacity < cap * 2 THEN cap * 2 ELSE vec_capacity
                m == VEC_REALLOC(buf, vec_new_cap, r) IN
            IF m.ptr # NULL
            THEN [vec |-> m.ptr, cap |-> vec_new_cap, len |-> len, buf |-> m.buf,
                  alloc |-> "ok", failed |-> FALSE]
            ELSE [vec |-> vec, cap |-> cap, len |-> len, buf |-> buf,
                  alloc |-> "fail", failed |-> TRUE]
       ELSE [vec |-> vec, cap |-> cap, len |-> len, buf |-> buf,
             alloc |-> "none", failed |-> FALSE]

\* vec__reserve_or_fail reallocating to the requested capacity whenever it differs
\* from the current one, so that a smaller request shrinks the block.
vec__reserve_or_fail_shrinking(capacity, r) ==
  LET vec_capacity == capacity IN
  IF vec_capacity = 0
  THEN [vec |-> vec, cap |-> cap, len |-> len, buf |-> buf,
        alloc |-> "none", failed |-> FALSE]
  ELSE IF ~vec__has_header
  THEN LET m == VEC_MALLOC(vec_capacity, r) IN
       IF m.ptr # NULL
       THEN [vec |-> m.ptr, cap |-> vec_capacity, len |-> 0, buf |-> m.buf,
             alloc |-> "ok", failed |-> FALSE]
       ELSE [vec |-> vec, cap |-> cap, len |-> len, buf |-> buf,
             alloc |-> "fail", failed |-> TRUE]
  ELSE IF vec_capacity # cap
       THEN LET m == VEC_REALLOC(buf, vec_capacity, r) IN
            IF m.ptr # NULL
            THEN [vec |-> m.ptr, cap |-> vec_capacity, len |-> len, buf |-> m.buf,
                  alloc |-> "ok", failed |-> FALSE]
            ELSE [vec |-> vec, cap |-> cap, len |-> len, buf |-> buf,
                  alloc |-> "fail", failed |-> TRUE]
       ELSE [vec |-> vec, cap |-> cap, len |-> len, buf |-> buf,
             alloc |-> "none", failed |-> FALSE]

\* vec__reserve_or_fail up to its failure block, as vec__grow_or_fail above.
vec__reserve_or_fail(capacity, r) ==
  LET vec_capacity == capacity IN
  IF vec_capacity = 0
  THEN [vec |-> vec, cap |-> cap, len |-> len, buf |-> buf,
        alloc |-> "none", failed |-> FALSE]
  ELSE IF ~vec__has_header
  THEN LET m == VEC_MALLOC(vec_capacity, r) IN
       IF m.ptr # NULL
       THEN [vec |-> m.ptr, cap |-> vec_capacity, len |-> 0, buf |-> m.buf,
             alloc |-> "ok", failed |-> FALSE]
       ELSE [vec |-> vec, cap |-> cap, len |-> len, buf |-> buf,
             alloc |-> "fail", failed |-> TRUE]
  ELSE IF vec_capacity > cap
       THEN LET m == VEC_REALLOC(buf, vec_capacity, r) IN
            IF m.ptr # NULL
            THEN [vec |-> m.ptr, cap |-> vec_capacity, len |-> len, buf |-> m.buf,
                  alloc |-> "ok", failed |-> FALSE]
            ELSE [vec |-> vec, cap |-> cap, len |-> len, buf |-> buf,
                  alloc |-> "fail", failed |-> TRUE]
       ELSE [vec |-> vec, cap |-> cap, len |-> len, buf |-> buf,
             alloc |-> "none", failed |-> FALSE]

\* What a slot that becomes live without being written can hold: the value an
\* earlier element left there or, if nobody wrote it yet, any value.
Unwritten(b, i) == IF b[i] = Indet THEN Values ELSE {b[i]}

\* The reference *(vec) + index, and the null reference.
Ref(addr, index) == [addr |-> addr, idx |-> index]
NoRef == Ref(NULL, 0)

\* (deinit_fn)(*(vec) + index) on buffer b while the header holds length n: the
\* slot passed, the value it holds at the call, and the length at the call.
deinit_fn(b, index, n) == [idx |-> index, val |-> b[index + 1], len |-> n]

\* The destructor loop stopping one slot early: i + 1 < n for i < n.
DeinitLoop_short(b, n) == [i \in 1..(n - 1) |-> deinit_fn(b, i - 1, n)]

\* (deinit_fn)(*(vec) + i) for i = 0 .. n-1 on buffer b: the calls, in order.
DeinitLoop(b, n) == [i \in 1..n |-> deinit_fn(b, i - 1, n)]

\* The shift loop stopping one slot early: i + 1 < n for i < n.
RECURSIVE ShiftLoop_short(_, _, _)
ShiftLoop_short(b, i, n) ==
  IF i + 1 < n THEN ShiftLoop_short([b EXCEPT ![i + 1] = b[i + 2]], i + 1, n) ELSE b

\* for (i = index; i < n; i++) (*(vec))[i] = (*(vec))[i+1];
RECURSIVE ShiftLoop(_, _, _)
ShiftLoop(b, i, n) ==
  IF i < n THEN ShiftLoop([b EXCEPT ![i + 1] = b[i + 2]], i + 1, n) ELSE b

\* The model stops growing at MaxLen elements and MaxCap slots.
GrowFits ==
  /\ vec_len < MaxLen
  /\ (vec__has_header /\ len >= cap) => cap * 2 <= MaxCap

\* The allocator's answer is an input only of a call that asks the allocator.
Asked(g, r) == g.alloc = "none" => r = NULL

\* The calls below are made by a running process on an array it has not released.
Usable == status = "running" /\ heap # "freed"

\* A call that invokes no destructor and executes no undefined behaviour.
Plain == destroyed' = <<>> /\ ub' = "none"

\* The history of appends after a call: it restarts whenever the call leaves the
\* array empty, is extended by an append that grew the array, and is no longer
\* pure after any other call.
NoAppends == [pure |-> TRUE, vals |-> <<>>]
Mixed == [pure |-> FALSE, vals |-> <<>>]
Appended(value) ==
  appended' = IF appended.pure
              THEN [pure |-> TRUE, vals |-> Append(appended.vals, value)]
              ELSE Mixed
NotAppended == appended' = IF vec_len' = 0 THEN NoAppends ELSE Mixed

\* The lifetime record of an array whose destructions are not followed, and of a
\* fresh one whose destructions are.
NotTracked == [on |-> FALSE, made |-> 0, gone |-> <<>>]
Tracked == [on |-> TRUE, made |-> 0, gone |-> <<>>]

\* The lifetime record after a call: a vec_push that returned made one more
\* element, and every deinit_fn call of the call passed one more value.
Track ==
  lifetime' = IF lifetime.on
              THEN [on |-> TRUE,
                    made |-> IF last'.op = "vec_push" /\ status' = "running"
                             THEN lifetime.made + 1 ELSE lifetime.made,
                    gone |-> lifetime.gone
                               \o [i \in 1..Len(destroyed') |-> destroyed'[i].val]]
              ELSE lifetime

\* The header and buffer take the values a growth computed.
Commit(g, b) ==
  /\ vec' = g.vec /\ cap' = g.cap /\ len' = g.len /\ buf' = b
  /\ heap' = IF g.vec # NULL THEN "live" ELSE heap

\* ------------------------------------------------------------------- state
Init ==
  /\ vec = NULL
  /\ len = 0
  /\ cap = 0
  /\ buf = <<>>
  /\ heap = "none"
  /\ errno = ENONE
  /\ status = "running"
  /\ destroyed = <<>>
  /\ ub = "none"
  /\ visited = <<>>
  /\ lifetime = NotTracked
  /\ last = Call("vec_init", 0, "none", NoRef)
  /\ appended = NoAppends

\* vec_init(vec): *(vec) = NULL, on a handle that owns no live block.
vec_init ==
  /\ status = "running" /\ heap # "live"
  /\ vec' = NULL /\ len' = 0 /\ cap' = 0 /\ buf' = <<>> /\ heap' = "none"
  /\ visited' = <<>>
  /\ last' = Call("vec_init", 0, "none", NoRef)
  /\ Plain
  /\ UNCHANGED <<errno, status>>
  /\ NotAppended
  /\ Track

\* The caller clears the error indicator: errno = 0.
errno_clear ==
  /\ status = "running" /\ errno # ENONE
  /\ errno' = ENONE
  /\ visited' = <<>>
  /\ last' = Call("errno_clear", 0, "none", NoRef)
  /\ Plain
  /\ UNCHANGED <<mem, status>>
  /\ NotAppended
  /\ Track

\* vec_push with a failure block that returns to the caller instead of exiting.
vec_push_returns(value, r) ==
  /\ Usable /\ GrowFits
  /\ LET g == vec__grow_or_fail(r) IN
     /\ Asked(g, r)
     /\ IF g.failed
        THEN Commit(g, g.buf) /\ status' = status
        ELSE Commit(g, [g.buf EXCEPT ![g.len] = value]) /\ status' = status
     /\ visited' = <<>>
     /\ last' = Call("vec_push", value, g.alloc, NoRef)
     /\ IF g.failed THEN NotAppended ELSE Appended(value)
  /\ Plain
  /\ UNCHANGED errno
  /\ Track

\* vec_push(vec, value): grow, VEC_PANIC on failure (the process exits with the
\* array as the growth left it), then write the new last slot.
vec_push(value, r) ==
  /\ Usable /\ GrowFits
  /\ LET g == vec__grow_or_fail(r) IN
     /\ Asked(g, r)
     /\ IF g.failed
        THEN Commit(g, g.buf) /\ status' = "panicked"
        ELSE Commit(g, [g.buf EXCEPT ![g.len] = value]) /\ status' = status
     /\ visited' = <<>>
     /\ last' = Call("vec_push", value, g.alloc, NoRef)
     /\ IF g.failed THEN NotAppended ELSE Appended(value)
  /\ Plain
  /\ UNCHANGED errno
  /\ Track

\* vec_try_push(vec, value): grow, errno = ENOMEM on failure, then write the new
\* last slot if errno != ENOMEM.
vec_try_push(value, r) ==
  /\ Usable /\ GrowFits
  /\ LET g == vec__grow_or_fail(r)
         e == IF g.failed THEN ENOMEM ELSE errno IN
     /\ Asked(g, r)
     /\ errno' = e
     /\ IF e # ENOMEM
        THEN Commit(g, [g.buf EXCEPT ![g.len] = value])
        ELSE IF g.failed THEN Commit(g, g.buf)
        ELSE \E x \in Unwritten(g.buf, g.len) : Commit(g, [g.buf EXCEPT ![g.len] = x])
     /\ visited' = <<>>
     /\ last' = Call("vec_try_push", value, g.alloc, NoRef)
     /\ IF g.failed THEN NotAppended ELSE Appended(value)
  /\ Plain
  /\ UNCHANGED status
  /\ Track

\* vec_emplace(vec): grow, panic on failure, yield *(vec) + len - 1.
vec_emplace(r) ==
  /\ Usable /\ GrowFits
  /\ LET g == vec__grow_or_fail(r) IN
     /\ Asked(g, r)
     /\ IF g.failed
        THEN /\ Commit(g, g.buf) /\ status' = "panicked"
             /\ visited' = <<>>
             /\ last' = Call("vec_emplace", 0, g.alloc, NoRef)
             /\ NotAppended
        ELSE /\ \E x \in Unwritten(g.buf, g.len) : Commit(g, [g.buf EXCEPT ![g.len] = x])
             /\ status' = status
             /\ visited' = <<>>
             /\ last' = Call("vec_emplace", 0, g.alloc, Ref(g.vec, g.len - 1))
             /\ NotAppended
  /\ Plain
  /\ UNCHANGED errno
  /\ Track

\* vec_try_emplace(vec): grow, errno = ENOMEM on failure, yield
\* errno != ENOMEM ? *(vec) + len - 1 : NULL (line 178 spells the "?" as ":").
vec_try_emplace(r) ==
  /\ Usable /\ GrowFits
  /\ LET g == vec__grow_or_fail(r)
         e == IF g.failed THEN ENOMEM ELSE errno IN
     /\ Asked(g, r)
     /\ errno' = e
     /\ IF g.failed
        THEN Commit(g, g.buf)
        ELSE \E x \in Unwritten(g.buf, g.len) : Commit(g, [g.buf EXCEPT ![g.len] = x])
     /\ visited' = <<>>
     /\ last' = Call("vec_try_emplace", 0, g.alloc,
                     IF e # ENOMEM THEN Ref(g.vec, g.len - 1) ELSE NoRef)
     /\ NotAppended
  /\ Plain
  /\ UNCHANGED status
  /\ Track

\* vec_reserve(vec, capacity): reserve, panic on failure.
vec_reserve(capacity, r) ==
  /\ Usable
  /\ LET g == vec__reserve_or_fail(capacity, r) IN
     /\ Asked(g, r)
     /\ Commit(g, g.buf)
     /\ status' = IF g.failed THEN "panicked" ELSE status
     /\ visited' = <<>>
     /\ last' = Call("vec_reserve", capacity, g.alloc, NoRef)
     /\ NotAppended
  /\ Plain
  /\ UNCHANGED errno
  /\ Track

\* vec_try_reserve(vec, capacity): reserve, errno = ENOMEM on failure.
vec_try_reserve(capacity, r) ==
  /\ Usable
  /\ LET g == vec__reserve_or_fail(capacity, r) IN
     /\ Asked(g, r)
     /\ errno' = IF g.failed THEN ENOMEM ELSE errno
     /\ Commit(g, g.buf)
     /\ visited' = <<>>
     /\ last' = Call("vec_try_reserve", capacity, g.alloc, NoRef)
     /\ NotAppended
  /\ Plain
  /\ UNCHANGED status
  /\ Track

\* vec_pop returning silently from an empty array instead of asserting.
vec_pop_silent ==
  /\ Usable
  /\ IF vec_len > 0
     THEN len' = len - 1 /\ status' = status
     ELSE len' = len /\ status' = status
  /\ visited' = <<>>
  /\ last' = Call("vec_pop", 0, "none", NoRef)
  /\ Plain
  /\ UNCHANGED <<vec, cap, buf, heap, errno>>
  /\ NotAppended
  /\ Track

\* vec_pop(vec): assert vec_len > 0, then len -= 1.
vec_pop ==
  /\ Usable
  /\ IF vec_len > 0
     THEN len' = len - 1 /\ status' = status
     ELSE len' = len /\ status' = "asserted"
  /\ visited' = <<>>
  /\ last' = Call("vec_pop", 0, "none", NoRef)
  /\ Plain
  /\ UNCHANGED <<vec, cap, buf, heap, errno>>
  /\ NotAppended
  /\ Track

\* vec_pop_with(vec, deinit_fn): assert vec_len > 0, len -= 1, then
\* (deinit_fn)(*(vec) + len).
vec_pop_with ==
  /\ Usable
  /\ IF vec_len > 0
     THEN /\ len' = len - 1 /\ status' = status
          /\ destroyed' = <<deinit_fn(buf, len - 1, len - 1)>>
     ELSE /\ len' = len /\ status' = "asserted"
          /\ destroyed' = <<>>
  /\ visited' = <<>>
  /\ last' = Call("vec_pop_with", 0, "none", NoRef)
  /\ ub' = "none"
  /\ UNCHANGED <<vec, cap, buf, heap, errno>>
  /\ NotAppended
  /\ Track

\* vec_clear giving the allocation back instead of keeping it for reuse.
vec_clear_releasing ==
  /\ Usable
  /\ IF vec__has_header
     THEN vec' = NULL /\ len' = 0 /\ cap' = 0 /\ buf' = <<>> /\ heap' = "none"
     ELSE UNCHANGED <<vec, len, cap, buf, heap>>
  /\ visited' = <<>>
  /\ last' = Call("vec_clear", 0, "none", NoRef)
  /\ Plain
  /\ UNCHANGED <<errno, status>>
  /\ NotAppended
  /\ Track

\* vec_clear(vec): if allocated, len = 0.
vec_clear ==
  /\ Usable
  /\ len' = IF vec__has_header THEN 0 ELSE len
  /\ visited' = <<>>
  /\ last' = Call("vec_clear", 0, "none", NoRef)
  /\ Plain
  /\ UNCHANGED <<vec, cap, buf, heap, errno, status>>
  /\ NotAppended
  /\ Track

\* vec_clear_with storing length 0 before the destructor loop, which then runs over
\* no slot.
vec_clear_with_len_first ==
  /\ Usable
  /\ IF vec__has_header
     THEN destroyed' = DeinitLoop(buf, 0) /\ len' = 0
     ELSE destroyed' = <<>> /\ len' = len
  /\ visited' = <<>>
  /\ last' = Call("vec_clear_with", 0, "none", NoRef)
  /\ ub' = "none"
  /\ UNCHANGED <<vec, cap, buf, heap, errno, status>>
  /\ NotAppended
  /\ Track

\* vec_clear_with(vec, deinit_fn): if allocated, deinit_fn on slots 0 .. len-1,
\* then len = 0.
vec_clear_with ==
  /\ Usable
  /\ IF vec__has_header
     THEN destroyed' = DeinitLoop(buf, len) /\ len' = 0
     ELSE destroyed' = <<>> /\ len' = len
  /\ visited' = <<>>
  /\ last' = Call("vec_clear_with", 0, "none", NoRef)
  /\ ub' = "none"
  /\ UNCHANGED <<vec, cap, buf, heap, errno, status>>
  /\ NotAppended
  /\ Track

\* vec_remove_swap_at copying from the slot before the former last one.
vec_remove_swap_at_off_by_one(index) ==
  /\ Usable
  /\ IF index < vec_len
     THEN /\ len' = len - 1 /\ status' = status
          /\ buf' = [buf EXCEPT ![index + 1] = buf[IF len > 1 THEN len - 1 ELSE len]]
     ELSE /\ len' = len /\ status' = "asserted"
          /\ buf' = buf
  /\ visited' = <<>>
  /\ last' = Call("vec_remove_swap_at", index, "none", NoRef)
  /\ Plain
  /\ UNCHANGED <<vec, cap, heap, errno>>
  /\ NotAppended
  /\ Track

\* vec_remove_swap_at(vec, index): assert index < vec_len, len -= 1, then
\* (*(vec))[index] = (*(vec))[len].
vec_remove_swap_at(index) ==
  /\ Usable
  /\ IF index < vec_len
     THEN /\ len' = len - 1 /\ status' = status
          /\ buf' = [buf EXCEPT ![index + 1] = buf[len]]
     ELSE /\ len' = len /\ status' = "asserted"
          /\ buf' = buf
  /\ visited' = <<>>
  /\ last' = Call("vec_remove_swap_at", index, "none", NoRef)
  /\ Plain
  /\ UNCHANGED <<vec, cap, heap, errno>>
  /\ NotAppended
  /\ Track

\* vec_remove_swap_at_with calling the destructor after the copy, on the value the
\* copy put into the slot.
vec_remove_swap_at_with_after_copy(index) ==
  /\ Usable
  /\ IF index < vec_len
     THEN /\ len' = len - 1 /\ status' = status
          /\ buf' = [buf EXCEPT ![index + 1] = buf[len]]
          /\ destroyed' = <<deinit_fn(buf', index, len - 1)>>
     ELSE /\ len' = len /\ status' = "asserted"
          /\ destroyed' = <<>>
          /\ buf' = buf
  /\ visited' = <<>>
  /\ last' = Call("vec_remove_swap_at_with", index, "none", NoRef)
  /\ ub' = "none"
  /\ UNCHANGED <<vec, cap, heap, errno>>
  /\ NotAppended
  /\ Track

\* vec_remove_swap_at_with(vec, index, deinit_fn): as vec_remove_swap_at, with
\* (deinit_fn)(*(vec) + index) between the decrement and the copy.
vec_remove_swap_at_with(index) ==
  /\ Usable
  /\ IF index < vec_len
     THEN /\ len' = len - 1 /\ status' = status
          /\ destroyed' = <<deinit_fn(buf, index, len - 1)>>
          /\ buf' = [buf EXCEPT ![index + 1] = buf[len]]
     ELSE /\ len' = len /\ status' = "asserted"
          /\ destroyed' = <<>>
          /\ buf' = buf
  /\ visited' = <<>>
  /\ last' = Call("vec_remove_swap_at_with", index, "none", NoRef)
  /\ ub' = "none"
  /\ UNCHANGED <<vec, cap, heap, errno>>
  /\ NotAppended
  /\ Track

\* vec_remove_shift_at(vec, index): assert index < vec_len, len -= 1, then shift
\* slots index+1 .. len down by one.
vec_remove_shift_at(index) ==
  /\ Usable
  /\ IF index < vec_len
     THEN /\ len' = len - 1 /\ status' = status
          /\ buf' = ShiftLoop(buf, index, len - 1)
     ELSE /\ len' = len /\ status' = "asserted"
          /\ buf' = buf
  /\ visited' = <<>>
  /\ last' = Call("vec_remove_shift_at", index, "none", NoRef)
  /\ Plain
  /\ UNCHANGED <<vec, cap, heap, errno>>
  /\ NotAppended
  /\ Track

\* vec_remove_shift_at_with clamping an out-of-range index to the last element
\* instead of asserting.
vec_remove_shift_at_with_clamped(index) ==
  /\ Usable
  /\ LET vec_index == IF index < vec_len THEN index ELSE vec_len - 1 IN
     IF vec_len > 0
     THEN /\ len' = len - 1 /\ status' = status
          /\ destroyed' = <<deinit_fn(buf, vec_index, len - 1)>>
          /\ buf' = ShiftLoop(buf, vec_index, len - 1)
     ELSE /\ len' = len /\ status' = "asserted"
          /\ destroyed' = <<>>
          /\ buf' = buf
  /\ visited' = <<>>
  /\ last' = Call("vec_remove_shift_at_with", index, "none", NoRef)
  /\ ub' = "none"
  /\ UNCHANGED <<vec, cap, heap, errno>>
  /\ NotAppended
  /\ Track

\* vec_remove_shift_at_with(vec, index, deinit_fn): as vec_remove_shift_at, with
\* (deinit_fn)(*(vec) + index) between the decrement and the shift.
vec_remove_shift_at_with(index) ==
  /\ Usable
  /\ IF index < vec_len
     THEN /\ len' = len - 1 /\ status' = status
          /\ destroyed' = <<deinit_fn(buf, index, len - 1)>>
          /\ buf' = ShiftLoop(buf, index, len - 1)
     ELSE /\ len' = len /\ status' = "asserted"
          /\ destroyed' = <<>>
          /\ buf' = buf
  /\ visited' = <<>>
  /\ last' = Call("vec_remove_shift_at_with", index, "none", NoRef)
  /\ ub' = "none"
  /\ UNCHANGED <<vec, cap, heap, errno>>
  /\ NotAppended
  /\ Track

\* What the header words of a block can read as once it is freed: the old values,
\* or the allocator's own bookkeeping.
Scribbles ==
  {[len |-> len, cap |-> cap]} \cup {[len |-> x, cap |-> y] : x \in 0..1, y \in 0..1}

\* VEC_FREE(header) on the block at vec.  The handle is not written.  A live block
\* becomes freed.  A block already freed is freed again: undefined behaviour, after
\* which the process goes on or crashes.
VEC_FREE ==
  IF heap = "live"
  THEN /\ heap' = "freed"
       /\ \E s \in Scribbles : len' = s.len /\ cap' = s.cap
       /\ buf' = <<>>
       /\ ub' = "none" /\ status' = status
  ELSE /\ ub' = "double_free"
       /\ status' \in {status, "crashed"}
       /\ UNCHANGED <<len, cap, buf, heap>>

\* vec_deinit(vec): VEC_FREE(vec__has_header(vec) ? vec__get_header(vec) : NULL).
vec_deinit ==
  /\ status = "running"
  /\ IF vec__has_header
     THEN VEC_FREE
     ELSE ub' = "none" /\ UNCHANGED <<len, cap, buf, heap, status>>
  /\ destroyed' = <<>>
  /\ visited' = <<>>
  /\ last' = Call("vec_deinit", 0, "none", NoRef)
  /\ UNCHANGED <<vec, errno>>
  /\ NotAppended
  /\ Track

\* vec_deinit_with(vec, deinit_fn): if allocated, deinit_fn on slots 0 .. len-1,
\* then VEC_FREE(header).  On a block already freed the loop reads freed memory.
vec_deinit_with ==
  /\ status = "running"
  /\ IF vec__has_header
     THEN /\ destroyed' = DeinitLoop(IF heap = "live" THEN buf ELSE Fresh(len), len)
          /\ VEC_FREE
     ELSE /\ destroyed' = <<>>
          /\ ub' = "none" /\ UNCHANGED <<len, cap, buf, heap, status>>
  /\ visited' = <<>>
  /\ last' = Call("vec_deinit_with", 0, "none", NoRef)
  /\ UNCHANGED <<vec, errno>>
  /\ NotAppended
  /\ Track

\* The inner loop with the pointer stepped by *(vec) + (_vec_i++): it lags one slot.
RECURSIVE ForEachLoop_post_increment(_, _, _, _, _)
ForEachLoop_post_increment(addr, b, i, p, n) ==
  IF i < n
  THEN <<[idx |-> i, ref |-> Ref(addr, p), val |-> b[p + 1]]>>
         \o ForEachLoop_post_increment(addr, b, i + 1, i, n)
  ELSE <<>>

\* for (value_ptr = *(vec); _vec_i < len; value_ptr = *(vec) + (++_vec_i)) body:
\* the visits from counter i and pointer *(vec) + p on, on buffer b at addr with
\* header length n.  Each visit is the counter, the reference and the value there.
RECURSIVE ForEachLoop(_, _, _, _, _)
ForEachLoop(addr, b, i, p, n) ==
  IF i < n
  THEN <<[idx |-> i, ref |-> Ref(addr, p), val |-> b[p + 1]]>>
         \o ForEachLoop(addr, b, i + 1, i + 1, n)
  ELSE <<>>

\* vec_for_each(vec, value_ptr) body, with a body that does not change the array:
\* if allocated, the outer loop runs the inner loop once, from _vec_i = 0.
vec_for_each ==
  /\ Usable
  /\ visited' = IF vec__has_header THEN ForEachLoop(vec, buf, 0, 0, len) ELSE <<>>
  /\ last' = Call("vec_for_each", 0, "none", NoRef)
  /\ Plain
  /\ UNCHANGED <<mem, errno, status>>
  /\ NotAppended
  /\ Track

\* vec_for_each_index(vec, value_ptr, index) body: as vec_for_each, the counter
\* being the caller's index.
vec_for_each_index ==
  /\ Usable
  /\ visited' = IF vec__has_header THEN ForEachLoop(vec, buf, 0, 0, len) ELSE <<>>
  /\ last' = Call("vec_for_each_index", 0, "none", NoRef)
  /\ Plain
  /\ UNCHANGED <<mem, errno, status>>
  /\ NotAppended
  /\ Track

\* The operations of an array between vec_init and its release.
NextOps ==
  \/ errno_clear
  \/ \E v \in Values, r \in AllocResults : vec_push(v, r)
  \/ \E v \in Values, r \in AllocResults : vec_try_push(v, r)
  \/ \E r \in AllocResults : vec_emplace(r)
  \/ \E r \in AllocResults : vec_try_emplace(r)
  \/ \E k \in 0..MaxCap, r \in AllocResults : vec_reserve(k, r)
  \/ \E k \in 0..MaxCap, r \in AllocResults : vec_try_reserve(k, r)
  \/ vec_pop
  \/ vec_pop_with
  \/ vec_clear
  \/ vec_clear_with
  \/ \E i \in 0..MaxLen : vec_remove_swap_at(i)
  \/ \E i \in 0..MaxLen : vec_remove_swap_at_with(i)
  \/ \E i \in 0..MaxLen : vec_remove_shift_at(i)
  \/ \E i \in 0..MaxLen : vec_remove_shift_at_with(i)

\* The array's whole life: its operations, its release, and vec_init again.
Next ==
  \/ NextOps
  \/ vec_deinit
  \/ vec_deinit_with
  \/ vec_init

SpecOps == Init /\ [][NextOps]_vars

\* The operations of an array and the traversals of it between them.
NextTraverse ==
  \/ NextOps
  \/ vec_for_each
  \/ vec_for_each_index

SpecTraverse == Init /\ [][NextTraverse]_vars

\* The capacity after n appends to a fresh array, by the rule of vec__grow_or_fail.
RECURSIVE CapAfter(_)
CapAfter(n) ==
  IF n = 0 THEN 0
  ELSE IF n = 1 THEN 1
  ELSE IF n - 1 < CapAfter(n - 1) THEN CapAfter(n - 1) ELSE CapAfter(n - 1) * 2

\* The removals, from every array that 1 .. RemLen appends of the values 10, 20,
\* 30, 40 to a fresh array produce.
RemValues == {10, 20, 30, 40}
InitRemove ==
  \E n \in 1..RemLen : \E c \in [1..n -> RemValues] :
    /\ vec = 1
    /\ len = n
    /\ cap = CapAfter(n)
    /\ buf = [i \in 1..CapAfter(n) |-> IF i <= n THEN c[i] ELSE Indet]
    /\ heap = "live"
    /\ errno = ENONE
    /\ status = "running"
    /\ destroyed = <<>>
    /\ ub = "none"
    /\ visited = <<>>
    /\ lifetime = NotTracked
    /\ last = Call("vec_push", c[n], IF CapAfter(n) # CapAfter(n - 1) THEN "ok" ELSE "none", NoRef)
    /\ appended = [pure |-> TRUE, vals |-> c]

NextRemove ==
  \/ \E i \in 0..RemLen : vec_remove_swap_at(i)
  \/ \E i \in 0..RemLen : vec_remove_swap_at_with(i)
  \/ \E i \in 0..RemLen : vec_remove_shift_at(i)
  \/ \E i \in 0..RemLen : vec_remove_shift_at_with(i)

SpecRemove == InitRemove /\ [][NextRemove]_vars

Spec == Init /\ [][Next]_vars

\* One lifetime of an array of elements that own something: it starts fresh, the
\* k-th vec_push appends the element k, elements leave through the
\* destructor-aware calls only, and one vec_deinit_with ends it.
InitLifetime ==
  /\ vec = NULL
  /\ len = 0
  /\ cap = 0
  /\ buf = <<>>
  /\ heap = "none"
  /\ errno = ENONE
  /\ status = "running"
  /\ destroyed = <<>>
  /\ ub = "none"
  /\ visited = <<>>
  /\ lifetime = Tracked
  /\ last = Call("vec_init", 0, "none", NoRef)
  /\ appended = NoAppends

NextLifetime ==
  \/ \E r \in AllocResults : lifetime.made < MaxPush /\ vec_push(lifetime.made + 1, r)
  \/ vec_pop_with
  \/ vec_clear_with
  \/ \E i \in 0..MaxLen : vec_remove_swap_at_with(i)
  \/ \E i \in 0..MaxLen : vec_remove_shift_at_with(i)
  \/ heap # "freed" /\ vec_deinit_with

SpecLifetime == InitLifetime /\ [][NextLifetime]_vars

\* -------------------------------------------------------------- properties
Appends == {"vec_push", "vec_try_push"}
Grows == {"vec_push", "vec_try_push", "vec_emplace", "vec_try_emplace"}
Reserves == {"vec_reserve", "vec_try_reserve"}
FailSoft == {"vec_try_push", "vec_try_emplace", "vec_try_reserve"}
Releases == {"vec_deinit", "vec_deinit_with"}

\* The live elements, slots 0 .. vec_len - 1.
Live == SubSeq(buf, 1, vec_len)

\* C1: after every call of push, try_push, emplace, try_emplace, reserve,
\* try_reserve, pop, clear, swap-remove and shift-remove (plain or
\* destructor-aware, the allocator free to fail in any of them), the length is at
\* most the capacity, as the header holds them and as vec_len and vec_cap report
\* them.  Checked under SpecOps, whose steps are exactly these calls.
C1_LenAtMostCap == len <= cap /\ vec_len <= vec_cap

\* C1 witness: a fail-soft append has just doubled a full array after an earlier
\* allocation failure, and the array is full again.
C1_Witness ==
  /\ last.op = "vec_try_push" /\ last.alloc = "ok"
  /\ errno = ENOMEM /\ len = 3 /\ cap = 4

\* C2: in every reachable state vec_cap reports 0 exactly when the handle is
\* NULL, and the handle is NULL exactly when the array owns no allocation.
C2_CapZeroIffNull ==
  /\ (vec_cap = 0) <=> (vec = NULL)
  /\ (vec = NULL) <=> (heap # "live")

\* The part of C2 that the code keeps: between vec_init and the release (SpecOps)
\* the capacity is 0 exactly when the handle is NULL and nothing is allocated.
CapZeroIffNullBeforeRelease == C2_CapZeroIffNull

\* C3: while the calls made on an empty array are appends that each grew it
\* (vec_push or vec_try_push whose allocation, if any, succeeded), the length is
\* the number of those appends and slot i holds the value of the (i+1)-th.
C3_AppendsInOrder ==
  appended.pure => vec_len = Len(appended.vals) /\ Live = appended.vals

\* The part of C3 that the code keeps: an append that reports success (vec_push
\* that returned, vec_try_push that left errno # ENOMEM) grew the array by one,
\* wrote its value in the new last slot and kept the elements before it.
ReportedAppendWrites ==
  [][(last'.op \in Appends /\ status' = "running" /\ last'.alloc # "fail"
       /\ (last'.op = "vec_try_push" => errno' # ENOMEM))
     => /\ vec_len' = vec_len + 1
        /\ Live' = Append(Live, last'.arg)]_vars

\* C4: a grow-by-one that does not fail follows the doubling rule: on an
\* unallocated array length = capacity = 1; with length < capacity the length
\* grows by one and the capacity and the allocation stay; with length = capacity
\* the capacity doubles and the length grows by one.  So the capacity changes
\* only when the array was unallocated or full.
C4_Doubling ==
  [][(last'.op \in Grows /\ last'.alloc # "fail")
     => /\ ~vec__has_header => (vec_len' = 1 /\ vec_cap' = 1 /\ last'.alloc = "ok")
        /\ (vec__has_header /\ len < cap)
             => (len' = len + 1 /\ cap' = cap /\ vec' = vec /\ last'.alloc = "none")
        /\ (vec__has_header /\ len = cap)
             => (len' = len + 1 /\ cap' = 2 * cap /\ last'.alloc = "ok")
        /\ vec_cap' # vec_cap => (~vec__has_header \/ len = cap)]_vars

\* C4 witness: the third append from empty has doubled the capacity from 2 to 4.
C4_Witness ==
  /\ last.op = "vec_push" /\ last.alloc = "ok"
  /\ appended.pure /\ Len(appended.vals) = 3 /\ len = 3 /\ cap = 4

\* C5: reserve honours the request verbatim.  reserve(K), K > 0, on an unallocated
\* array gives capacity K and length 0; on an allocated array with K > capacity
\* it gives capacity K and keeps the length and the live elements; with
\* K <= capacity, and with K = 0, it changes nothing and does not ask the allocator.
C5_ReserveExact ==
  [][(last'.op \in Reserves)
     => LET K == last'.arg IN
        /\ (K > 0 /\ ~vec__has_header /\ last'.alloc = "ok")
             => (vec' # NULL /\ vec_cap' = K /\ vec_len' = 0)
        /\ (vec__has_header /\ K > cap /\ last'.alloc = "ok")
             => (vec_cap' = K /\ vec_len' = len /\ Live' = Live)
        /\ K <= vec_cap
             => (last'.alloc = "none" /\ UNCHANGED <<mem, errno, status>>)
        /\ K > vec_cap => last'.alloc # "none"]_vars

\* C5 witness: reserve(3) has grown an allocated array of capacity 2 holding two
\* elements to capacity exactly 3.
C5_Witness ==
  /\ last.op = "vec_reserve" /\ last.arg = 3 /\ last.alloc = "ok"
  /\ cap = 3 /\ len = 2 /\ status = "running"

\* C6: a fail-soft call (vec_try_push, vec_try_emplace, vec_try_reserve) whose
\* allocation fails leaves the handle, the length, the capacity and every slot as
\* they were, and errno = ENOMEM; from the NULL state and on a full array alike.
C6_FailSoftUnchanged ==
  [][(last'.op \in FailSoft /\ last'.alloc = "fail")
     => (UNCHANGED mem /\ errno' = ENOMEM /\ status' = "running")]_vars

\* C6 witness: the reallocation of a full array of two elements has just failed
\* in vec_try_push.
C6_Witness ==
  /\ last.op = "vec_try_push" /\ last.alloc = "fail"
  /\ vec # NULL /\ len = 2 /\ cap = 2 /\ errno = ENOMEM

\* C7: after vec_deinit or vec_deinit_with the array is as a freshly declared one:
\* the handle is NULL, vec_len and vec_cap report 0, and the block is freed.
C7_ReleaseResets ==
  last.op \in Releases
    => (vec = NULL /\ vec_len = 0 /\ vec_cap = 0 /\ heap # "live")

\* C8: a release that immediately follows a release changes nothing: it frees
\* nothing, invokes no destructor, and neither frees nor reads a freed block.
C8_SecondReleaseNoOp ==
  [][(last.op \in Releases /\ last'.op \in Releases)
     => (UNCHANGED mem /\ destroyed' = <<>> /\ ub' = "none")]_vars

SwapRemoves == {"vec_remove_swap_at", "vec_remove_swap_at_with"}
ShiftRemoves == {"vec_remove_shift_at", "vec_remove_shift_at_with"}

\* C9: a swap-remove at index i < length n leaves length n - 1, the former last
\* element in slot i (if i < n - 1), and every other slot below n - 1 as it was.
C9_SwapRemove ==
  [][(last'.op \in SwapRemoves /\ last'.arg < vec_len)
     => LET i == last'.arg
            n == vec_len IN
        /\ status' = "running"
        /\ vec_len' = n - 1
        /\ i < n - 1 => buf'[i + 1] = buf[n]
        /\ \A j \in 0..(n - 2) : j # i => buf'[j + 1] = buf[j + 1]]_vars

\* C9 witness: [10, 20, 30, 40] after the swap-remove at index 1 is [10, 40, 30].
C9_Witness ==
  /\ last.op = "vec_remove_swap_at" /\ last.arg = 1 /\ status = "running"
  /\ appended.pure = FALSE
  /\ Live = <<10, 40, 30>> /\ buf[4] = 40

\* C10: a shift-remove at index i < length n leaves length n - 1, slots below i
\* as they were and slot j, i <= j < n - 1, holding the former slot j + 1.
C10_ShiftRemove ==
  [][(last'.op \in ShiftRemoves /\ last'.arg < vec_len)
     => LET i == last'.arg
            n == vec_len IN
        /\ status' = "running"
        /\ vec_len' = n - 1
        /\ \A j \in 0..(n - 2) :
             buf'[j + 1] = IF j < i THEN buf[j + 1] ELSE buf[j + 2]]_vars

\* C10 witness: [10, 20, 30, 40] after the shift-remove at index 1 is [10, 30, 40].
C10_Witness ==
  /\ last.op = "vec_remove_shift_at" /\ last.arg = 1 /\ status = "running"
  /\ Live = <<10, 30, 40>> /\ buf[4] = 40

\* C11: vec_clear_with on an allocated array of n live elements calls the
\* destructor exactly n times, on slots 0, 1, ..., n-1 in this order, each while
\* the length is still n and on the value the slot held; afterwards the length is
\* 0 and the capacity, the handle, the block and the slots are as they were.  On
\* an unallocated array it calls nothing and changes nothing.
C11_ClearWithOrder ==
  [][(last'.op = "vec_clear_with")
     => IF vec__has_header
        THEN /\ Len(destroyed') = len
             /\ \A i \in 1..len :
                  destroyed'[i] = [idx |-> i - 1, val |-> buf[i], len |-> len]
             /\ vec_len' = 0
             /\ vec' = vec /\ cap' = cap /\ buf' = buf /\ heap' = heap
        ELSE destroyed' = <<>> /\ UNCHANGED mem]_vars

\* C11 witness: an array of 3 elements has just been cleared with a destructor,
\* called on slots 0, 1, 2; the capacity 4 is retained.
C11_Witness ==
  /\ last.op = "vec_clear_with" /\ Len(destroyed) = 3
  /\ destroyed[1].idx = 0 /\ destroyed[3].idx = 2
  /\ vec # NULL /\ len = 0 /\ cap = 4

Pops == {"vec_pop", "vec_pop_with"}

\* C12: vec_pop and vec_pop_with on an array of length 0, unallocated or allocated
\* and empty, fail the assertion with nothing changed and no destructor called;
\* on an array of length > 0 they return with the length one less.
C12_PopContract ==
  [][(last'.op \in Pops)
     => IF vec_len = 0
        THEN status' = "asserted" /\ UNCHANGED mem /\ destroyed' = <<>> /\ ub' = "none"
        ELSE status' = "running" /\ len' = len - 1 /\ vec_len' = vec_len - 1]_vars

\* C12 witness: vec_pop on an allocated array of length 0 has failed its assertion.
C12_Witness ==
  /\ last.op = "vec_pop" /\ status = "asserted"
  /\ vec # NULL /\ len = 0 /\ cap > 0

Removes == SwapRemoves \cup ShiftRemoves

\* C13: each of the four removals called with index >= length, on an unallocated
\* array too, fails the assertion with the handle, header and slots unchanged and
\* no destructor called.
C13_RemoveContract ==
  [][(last'.op \in Removes /\ last'.arg >= vec_len)
     => (status' = "asserted" /\ UNCHANGED mem /\ destroyed' = <<>> /\ ub' = "none")]_vars

\* C13 witness: vec_remove_shift_at_with with index = length = 2 has failed its
\* assertion.
C13_Witness ==
  /\ last.op = "vec_remove_shift_at_with" /\ status = "asserted"
  /\ last.arg = 2 /\ vec_len = 2

FailFast == {"vec_push", "vec_emplace", "vec_reserve"}

\* C14: a fail-fast call is made by a running process; if its allocation fails the
\* process is panicked (and makes no further step) with the handle, header and
\* slots unchanged; if it returns, no allocation failed and the growth happened:
\* vec_push and vec_emplace leave the length one more, vec_reserve leaves the
\* capacity at least the request.
C14_FailFast ==
  [][(last'.op \in FailFast)
     => /\ status = "running"
        /\ last'.alloc = "fail" => (status' = "panicked" /\ UNCHANGED mem)
        /\ status' = "running"
             => /\ last'.alloc # "fail"
                /\ last'.op # "vec_reserve" => vec_len' = vec_len + 1
                /\ last'.op = "vec_reserve" => vec_cap' >= last'.arg]_vars

\* C14 witness: the reallocation of a full array of two elements has failed in
\* vec_push and the process has exited.
C14_Witness ==
  /\ last.op = "vec_push" /\ last.alloc = "fail" /\ status = "panicked"
  /\ len = 2 /\ cap = 2

\* C15: immediately after any fail-soft call, whatever calls came before it,
\* errno = ENOMEM exactly when that call's own allocation failed.
C15_IndicatorOwnCall ==
  [][(last'.op \in FailSoft) => (errno' = ENOMEM <=> last'.alloc = "fail")]_vars

\* The part of C15 that the code keeps: a fail-soft call whose allocation failed
\* leaves errno = ENOMEM, and a fail-soft call made with errno # ENOMEM leaves
\* errno = ENOMEM exactly when its own allocation failed.
IndicatorAfterClearedErrno ==
  [][(last'.op \in FailSoft)
     => /\ last'.alloc = "fail" => errno' = ENOMEM
        /\ errno # ENOMEM => (errno' = ENOMEM <=> last'.alloc = "fail")]_vars

Emplaces == {"vec_emplace", "vec_try_emplace"}

\* C16: an emplace whose growth succeeded leaves the length one more and returns
\* the reference to slot length - 1 of the current buffer; vec_try_emplace
\* returns the null reference exactly when its growth failed, and then the array
\* is unchanged.
C16_EmplaceRef ==
  [][(last'.op \in Emplaces)
     => /\ (last'.alloc # "fail")
             => (vec_len' = vec_len + 1 /\ last'.ret = Ref(vec', vec_len' - 1))
        /\ (last'.op = "vec_try_emplace")
             => /\ last'.ret = NoRef <=> last'.alloc = "fail"
                /\ last'.alloc = "fail" => UNCHANGED mem]_vars

\* The part of C16 that the code keeps: vec_emplace that returns, and
\* vec_try_emplace that returns a non-null reference, grew the array by one and
\* return the reference to its new last slot; a failed vec_try_emplace returns
\* the null reference and leaves the array unchanged.
EmplaceRefWhenReported ==
  [][(last'.op \in Emplaces /\ status' = "running")
     => /\ last'.ret # NoRef
             => (vec_len' = vec_len + 1 /\ last'.ret = Ref(vec', vec_len' - 1))
        /\ last'.op = "vec_emplace" => last'.ret # NoRef
        /\ last'.alloc = "fail" => (last'.ret = NoRef /\ UNCHANGED mem)]_vars

\* C17: vec_try_push writes exactly when its own growth succeeded: whenever it
\* leaves the length one more, the new last slot holds the pushed value, also
\* after an earlier failed fail-soft call; when its growth failed it writes nothing.
C17_TryPushWrites ==
  [][(last'.op = "vec_try_push")
     => /\ vec_len' = vec_len + 1 => buf'[vec_len'] = last'.arg
        /\ last'.alloc = "fail" => UNCHANGED <<vec, len, cap, buf>>]_vars

\* C18: between vec_init and the release, no call leaves the capacity smaller
\* than it found it, whether it succeeds, fails, doubles a full array or removes
\* elements.  Checked under SpecOps, whose steps are the calls before the release.
C18_CapMonotone == [][cap' >= cap /\ vec_cap' >= vec_cap]_vars

\* C18 witness: vec_try_reserve(1) on an array of capacity 4 has returned without
\* asking the allocator, the capacity still 4.
C18_Witness ==
  /\ last.op = "vec_try_reserve" /\ last.arg = 1 /\ last.alloc = "none"
  /\ cap = 4 /\ len = 3

Clears == {"vec_clear", "vec_clear_with"}

\* C19: pop, clear and the removals, plain or destructor-aware, do not ask the
\* allocator and leave the handle, the capacity and the block as they were; pop
\* leaves every slot below the new length as it was, a removal every slot below
\* the removed index.
C19_NoRealloc ==
  [][(last'.op \in Pops \cup Clears \cup Removes)
     => /\ last'.alloc = "none"
        /\ vec' = vec /\ cap' = cap /\ heap' = heap /\ vec_cap' = vec_cap
        /\ last'.op \in Pops => \A j \in 1..vec_len' : buf'[j] = buf[j]
        /\ last'.op \in Removes
             => \A j \in 1..vec_len' : j <= last'.arg => buf'[j] = buf[j]]_vars

\* C19 witness: vec_remove_swap_at_with at index 1 of three elements in a block
\* of capacity 4 has returned; two elements are left in the same block.
C19_Witness ==
  /\ last.op = "vec_remove_swap_at_with" /\ last.arg = 1 /\ status = "running"
  /\ Len(destroyed) = 1 /\ len = 2 /\ cap = 4

Traversals == {"vec_for_each", "vec_for_each_index"}

\* C20: a traversal whose body does not change the array ends, leaves the array
\* as it was and visits exactly the live elements, once each, in the order of
\* slots 0 .. length - 1, each by the reference to its slot; it visits nothing on
\* an unallocated array and on an allocated array of length 0; a traversal right
\* after a traversal visits the same.
C20_ForEach ==
  [][(last'.op \in Traversals)
     => /\ UNCHANGED <<mem, errno, status>>
        /\ Len(visited') = vec_len
        /\ \A i \in 1..vec_len :
             visited'[i] = [idx |-> i - 1, ref |-> Ref(vec, i - 1), val |-> buf[i]]
        /\ last.op \in Traversals => visited' = visited]_vars

\* C20 witness: vec_for_each_index has visited slots 0, 1, 2 of an array of three
\* elements in a block of capacity 4.
C20_Witness ==
  /\ last.op = "vec_for_each_index" /\ Len(visited) = 3
  /\ visited[1].idx = 0 /\ visited[3].idx = 2 /\ visited[3].ref = Ref(vec, 2)
  /\ len = 3 /\ cap = 4

RemovesWith == {"vec_remove_swap_at_with", "vec_remove_shift_at_with"}

\* C21: a destructor-aware pop or removal that passes its assertion calls the
\* destructor exactly once: vec_pop_with on the former last slot, the removals on
\* slot index; in each case on the value the slot held before the call, with the
\* length already one less, and on no other slot.
C21_DestroyRemoved ==
  [][(last'.op \in {"vec_pop_with"} \cup RemovesWith /\ status' = "running")
     => LET i == IF last'.op = "vec_pop_with" THEN vec_len - 1 ELSE last'.arg IN
        /\ destroyed' = <<[idx |-> i, val |-> buf[i + 1], len |-> vec_len - 1]>>
        /\ vec_len' = vec_len - 1]_vars

\* C21 witness: vec_remove_swap_at_with at index 0 of [1, 2] has destroyed the
\* value 1 of slot 0, and slot 0 now holds the former last element 2.
C21_Witness ==
  /\ last.op = "vec_remove_swap_at_with" /\ last.arg = 0 /\ status = "running"
  /\ destroyed = <<[idx |-> 0, val |-> 1, len |-> 1]>>
  /\ len = 1 /\ buf[1] = 2

\* How many times the value x was passed to the destructor over the lifetime.
TimesDestroyed(x) == Cardinality({i \in 1..Len(lifetime.gone) : lifetime.gone[i] = x})

DestroyedOrLive ==
  (heap # "freed" /\ status = "running")
    => \A x \in 1..lifetime.made :
         TimesDestroyed(x) + Cardinality({i \in 1..vec_len : buf[i] = x}) = 1

====
